---- MODULE Spec2Model ----
(***************************************************************************)
(* Transcript pipeline of biztel.ai_assignment: DataLoader, DataCleaner    *)
(* and DataPreprocessor (data_pipeline.py), TranscriptAnalyzer             *)
(* (summarizer.py) and the /analyze-transcript endpoint (main.py).         *)
(*                                                                         *)
(* Python values are tagged tuples: <<"NoneType">> is None, <<"str", s>>   *)
(* a str, <<"list", xs>> a list, <<"dict", items>> a dict whose items are  *)
(* kept in iteration order.  A JSON object that is only read with .get is  *)
(* a function from its keys to its values.  A DataFrame is a record of its *)
(* column names and its rows in index order.                               *)
(***************************************************************************)
EXTENDS Integers, Sequences, FiniteSets, TLC

VARIABLES
    source,       \* the parsed content of the JSON file at DataLoader.filepath
    raw_data,     \* DataLoader.raw_data
    loader_out,   \* outcome of the last DataLoader.to_dataframe call
    cleaner_df,   \* DataCleaner.df
    cleaner_out,  \* outcome of the last DataCleaner method call
    analyzer_df,  \* TranscriptAnalyzer.df
    result,       \* outcome of the last analyze_transcript request
    resources,    \* how often the stopword list was read and a lemmatizer built
    preprocess_out,   \* outcome of the last DataPreprocessor.preprocess_text call
    preprocessor_df,  \* DataPreprocessor.df
    encoder_out,  \* outcome of the last DataPreprocessor.encode_categorical call
    pipeline_runs,    \* how often TranscriptAnalyzer._load_data has run
    inflight      \* the analyze_transcript call of each concurrent caller

vars ==
    <<source, raw_data, loader_out, cleaner_df, cleaner_out, analyzer_df, result,
      resources, preprocess_out, preprocessor_df, encoder_out, pipeline_runs, inflight>>

\* the state of DataPreprocessor objects and of the concurrent callers
preprocessor_vars ==
    <<resources, preprocess_out, preprocessor_df, encoder_out, pipeline_runs, inflight>>

----------------------------------------------------------------------------
(* Python values *)

None == <<"NoneType">>
PyStr(s) == <<"str", s>>
PyList(xs) == <<"list", xs>>
PyDict(items) == <<"dict", items>>

isdict(v) == v[1] = "dict"

\* dict.get(key, default) on a JSON object
get_default(d, key, default) == IF key \in DOMAIN d THEN d[key] ELSE default

\* dict.get(key): the default is None
get(d, key) == get_default(d, key, None)

\* pandas.isna on an object cell
isnull(v) == v = None

SeqsUpTo(S, n) == UNION {[1..k -> S] : k \in 0..n}

NotCalled == [kind |-> "none"]

\* an object that has not been constructed
Absent == [columns |-> {}]

\* the module body of data_pipeline.py reads the stopword list and builds a
\* lemmatizer when the module is imported
imported == [stopword_loads |-> 1, lemmatizer_inits |-> 1]

\* the threads that may call one TranscriptAnalyzer at the same time
Workers == {"w1", "w2"}

Idle == [w \in Workers |-> [phase |-> "idle"]]

\* no DataPreprocessor or TranscriptAnalyzer has been used since the import
PreprocessorUnused ==
    /\ resources = imported
    /\ preprocess_out = NotCalled
    /\ preprocessor_df = Absent
    /\ encoder_out = NotCalled
    /\ pipeline_runs = 0
    /\ inflight = Idle

----------------------------------------------------------------------------
(* DataLoader *)

Columns ==
    {"transcript_id", "article_url", "message", "agent", "sentiment",
     "knowledge_source", "turn_rating"}

\* the record built for one turn: turn.get(...) for every field
turn_record(transcript_id, article_url, turn) ==
    [transcript_id    |-> transcript_id,
     article_url      |-> article_url,
     message          |-> get(turn, "message"),
     agent            |-> get(turn, "agent"),
     sentiment        |-> get(turn, "sentiment"),
     knowledge_source |-> get(turn, "knowledge_source"),
     turn_rating      |-> get(turn, "turn_rating")]

\* a flattening that puts each new record in front of the earlier ones
RECURSIVE append_turns_reversed(_, _, _, _)
append_turns_reversed(records, transcript_id, article_url, turns) ==
    IF turns = <<>> THEN records
    ELSE append_turns_reversed(
             <<turn_record(transcript_id, article_url, Head(turns))>> \o records,
             transcript_id, article_url, Tail(turns))

\* the inner loop: one records.append(record) per turn, in order
RECURSIVE append_turns(_, _, _, _)
append_turns(records, transcript_id, article_url, turns) ==
    IF turns = <<>> THEN records
    ELSE append_turns(
             Append(records, turn_record(transcript_id, article_url, Head(turns))),
             transcript_id, article_url, Tail(turns))

\* the outer loop over raw_data.items()
RECURSIVE append_items(_, _)
append_items(records, items) ==
    IF items = <<>> THEN records
    ELSE LET transcript_id == Head(items)[1]
             data == Head(items)[2]
         IN  append_items(
                 append_turns(records, transcript_id, get(data, "article_url"),
                              get_default(data, "content", <<>>)),
                 Tail(items))

\* pd.DataFrame(records): a list of dicts gives their keys as columns, an
\* empty list a frame without columns
DataFrame(records) ==
    [columns |-> IF records = <<>> THEN {} ELSE Columns, rows |-> records]

\* json.load of the file
json_load == source

\* the value of raw_data that to_dataframe iterates: loaded first when None
loaded_raw_data == IF raw_data = None THEN json_load ELSE raw_data

\* the outcome of to_dataframe on a loaded value: .items() exists on a dict only
flatten_outcome(raw) ==
    IF isdict(raw)
    THEN [kind |-> "ok", df |-> DataFrame(append_items(<<>>, raw[2]))]
    ELSE [kind |-> "raised", exc |-> "AttributeError"]

load_data ==
    /\ raw_data' = json_load
    /\ UNCHANGED <<source, loader_out, cleaner_df, cleaner_out, analyzer_df, result, preprocessor_vars>>

to_dataframe ==
    /\ raw_data' = loaded_raw_data
    /\ loader_out' = flatten_outcome(loaded_raw_data)
    /\ UNCHANGED <<source, cleaner_df, cleaner_out, analyzer_df, result, preprocessor_vars>>

----------------------------------------------------------------------------
(* Inputs of the loader *)

MaxTurns == 2

TranscriptIds == {"t1", "t2"}

Hello == PyStr(<<"h", "i", "!">>)
Bye == PyStr(<<"b", "y", "e">>)

LoaderTurns ==
    {[message |-> Hello, agent |-> PyStr("agent_1"), sentiment |-> PyStr("Positive"),
      knowledge_source |-> PyList(<<"FS1">>), turn_rating |-> PyStr("Good")],
     [message |-> Bye, agent |-> PyStr("agent_2"), sentiment |-> None,
      knowledge_source |-> PyList(<<>>), turn_rating |-> PyStr("Poor")],
     [message |-> Hello],
     [agent |-> PyStr("agent_1")]}

LoaderContents == SeqsUpTo(LoaderTurns, MaxTurns)

LoaderRecords ==
    {[article_url |-> PyStr("http://a"), content |-> c] : c \in LoaderContents}
    \cup {[content |-> c] : c \in LoaderContents}
    \cup {[article_url |-> PyStr("http://a")]}

\* the keys of a JSON object are distinct
DistinctKeys(items) ==
    \A i, j \in 1..Len(items) : i # j => items[i][1] # items[j][1]

LoaderStores ==
    {PyDict(items) : items \in
        {s \in SeqsUpTo(TranscriptIds \X LoaderRecords, Cardinality(TranscriptIds)) :
            DistinctKeys(s)}}

LoaderSources == LoaderStores \cup {PyList(<<>>), PyStr(<<"x">>), None}

InitLoader ==
    /\ source \in LoaderSources
    /\ raw_data = None
    /\ loader_out = NotCalled
    /\ cleaner_df = Absent
    /\ cleaner_out = NotCalled
    /\ analyzer_df = Absent
    /\ result = NotCalled
    /\ PreprocessorUnused

NextLoader == load_data \/ to_dataframe

SpecLoader == InitLoader /\ [][NextLoader]_vars

----------------------------------------------------------------------------
(* Properties of the loader *)

\* the turns of the k-th transcript of the store, as the file gives them
TurnsOf(items, k) ==
    IF "content" \in DOMAIN items[k][2] THEN items[k][2].content ELSE <<>>

\* the number of turns of the transcripts before the k-th
RECURSIVE TurnsBefore(_, _)
TurnsBefore(items, k) ==
    IF k <= 1 THEN 0 ELSE TurnsBefore(items, k - 1) + Len(TurnsOf(items, k - 1))

Field(obj, key) == IF key \in DOMAIN obj THEN obj[key] ELSE None

\* row r is the flat record of turn j of the k-th transcript
IsRowOf(r, items, k, j) ==
    LET turn == TurnsOf(items, k)[j] IN
    /\ r.transcript_id = items[k][1]
    /\ r.article_url = Field(items[k][2], "article_url")
    /\ r.message = Field(turn, "message")
    /\ r.agent = Field(turn, "agent")
    /\ r.sentiment = Field(turn, "sentiment")
    /\ r.knowledge_source = Field(turn, "knowledge_source")
    /\ r.turn_rating = Field(turn, "turn_rating")

\* C1: to_dataframe emits exactly one row per turn, and the rows are the
\* turns of the first transcript in their order, then those of the second,
\* and so on in the store's iteration order.
C1_FlattenKeepsTurnOrder ==
    loader_out.kind = "ok" =>
        LET items == raw_data[2]
            rows == loader_out.df.rows
        IN  /\ Len(rows) = TurnsBefore(items, Len(items) + 1)
            /\ \A k \in 1..Len(items) : \A j \in 1..Len(TurnsOf(items, k)) :
                   IsRowOf(rows[TurnsBefore(items, k) + j], items, k, j)

\* two transcripts of two different turns each have been flattened
C1_Witness ==
    /\ loader_out.kind = "ok"
    /\ Len(raw_data[2]) = 2
    /\ \A k \in 1..2 :
          /\ Len(TurnsOf(raw_data[2], k)) = 2
          /\ TurnsOf(raw_data[2], k)[1] # TurnsOf(raw_data[2], k)[2]
    /\ Len(loader_out.df.rows) = 4

\* the input deviates from the format: no mapping at the top, or a transcript
\* record without a content key
StructuralDeviation(v) ==
    \/ ~isdict(v)
    \/ \E k \in 1..Len(v[2]) : "content" \notin DOMAIN v[2][k][2]

\* C10: flattening an input that deviates structurally fails with an error.
C10_DeviationFailsFast ==
    (loader_out # NotCalled /\ StructuralDeviation(source)) =>
        loader_out.kind = "raised"

----------------------------------------------------------------------------
(* DataCleaner *)

\* df[~mask] with a mask that keeps row i when keep[i]
RECURSIVE select_rows(_, _)
select_rows(rows, keep) ==
    IF rows = <<>> THEN <<>>
    ELSE (IF Head(keep) THEN <<Head(rows)>> ELSE <<>>)
         \o select_rows(Tail(rows), Tail(keep))

\* a duplicate key that also compares the columns outside the subset
whole_row_key(row) ==
    <<row.transcript_id, row.agent, row.message, row.sentiment,
      row.knowledge_source, row.turn_rating>>

\* the values of subset=['transcript_id', 'agent', 'message']; nulls compare equal
duplicate_key(row) == <<row.transcript_id, row.agent, row.message>>

\* a mask that marks every occurrence of a key but the last (keep='last')
duplicated_keep_last(rows) ==
    [i \in 1..Len(rows) |->
        \E j \in (i + 1)..Len(rows) : duplicate_key(rows[j]) = duplicate_key(rows[i])]

\* DataFrame.duplicated(subset, keep='first'): a row is marked when an earlier
\* row has its key
duplicated(rows) ==
    [i \in 1..Len(rows) |->
        \E j \in 1..(i - 1) : duplicate_key(rows[j]) = duplicate_key(rows[i])]

\* drop_duplicates(subset=[...], inplace=True)
drop_duplicates(rows) ==
    select_rows(rows, [i \in 1..Len(rows) |-> ~duplicated(rows)[i]])

\* a row counts as missing only when message and agent are both null (how='all')
missing_all(row) == isnull(row.message) /\ isnull(row.agent)

\* a row is dropped when any of subset=['message', 'agent'] is null (how='any')
missing_any(row) == isnull(row.message) \/ isnull(row.agent)

\* dropna(subset=['message', 'agent'], inplace=True)
dropna(rows) ==
    select_rows(rows, [i \in 1..Len(rows) |-> ~missing_any(rows[i])])

\* both calls look their subset up in the columns and raise KeyError without it
has_columns(df, subset) == subset \subseteq df.columns

DedupSubset == {"transcript_id", "agent", "message"}
DropnaSubset == {"message", "agent"}

Called(op, before) == [kind |-> "ok", op |-> op, before |-> before]
Raised(op, exc) == [kind |-> "raised", op |-> op, exc |-> exc]

remove_duplicates ==
    /\ cleaner_df # Absent
    /\ IF has_columns(cleaner_df, DedupSubset)
       THEN /\ cleaner_df' = [cleaner_df EXCEPT !.rows = drop_duplicates(@)]
            /\ cleaner_out' = Called("remove_duplicates", cleaner_df.rows)
       ELSE /\ cleaner_df' = cleaner_df
            /\ cleaner_out' = Raised("remove_duplicates", "KeyError")
    /\ UNCHANGED <<source, raw_data, loader_out, analyzer_df, result, preprocessor_vars>>

handle_missing_values ==
    /\ cleaner_df # Absent
    /\ IF has_columns(cleaner_df, DropnaSubset)
       THEN /\ cleaner_df' = [cleaner_df EXCEPT !.rows = dropna(@)]
            /\ cleaner_out' = Called("handle_missing_values", cleaner_df.rows)
       ELSE /\ cleaner_df' = cleaner_df
            /\ cleaner_out' = Raised("handle_missing_values", "KeyError")
    /\ UNCHANGED <<source, raw_data, loader_out, analyzer_df, result, preprocessor_vars>>

\* remove_duplicates() then handle_missing_values(); the first KeyError ends it
clean_data ==
    /\ cleaner_df # Absent
    /\ IF has_columns(cleaner_df, DedupSubset)
       THEN /\ cleaner_df' = [cleaner_df EXCEPT !.rows = dropna(drop_duplicates(@))]
            /\ cleaner_out' = Called("clean_data", cleaner_df.rows)
       ELSE /\ cleaner_df' = cleaner_df
            /\ cleaner_out' = Raised("clean_data", "KeyError")
    /\ UNCHANGED <<source, raw_data, loader_out, analyzer_df, result, preprocessor_vars>>

----------------------------------------------------------------------------
(* Inputs of the cleaner: DataCleaner(df) built on any table *)

MaxRows == 3

\* the columns outside both subsets, varied together
RestOfRow ==
    {[article_url |-> PyStr("http://a"), sentiment |-> PyStr("Positive"),
      knowledge_source |-> PyList(<<"FS1">>), turn_rating |-> PyStr("Good")],
     [article_url |-> None, sentiment |-> None,
      knowledge_source |-> PyList(<<>>), turn_rating |-> None]}

CleanerRows ==
    {[transcript_id    |-> t,
      article_url      |-> rest.article_url,
      message          |-> m,
      agent            |-> a,
      sentiment        |-> rest.sentiment,
      knowledge_source |-> rest.knowledge_source,
      turn_rating      |-> rest.turn_rating] :
        t \in TranscriptIds, m \in {Hello, None}, a \in {PyStr("agent_1"), None},
        rest \in RestOfRow}

CleanerTables ==
    {[columns |-> Columns, rows |-> rows] : rows \in SeqsUpTo(CleanerRows, MaxRows)}
    \cup {DataFrame(<<>>)}

InitCleaner ==
    /\ source = None
    /\ raw_data = None
    /\ loader_out = NotCalled
    /\ cleaner_df \in CleanerTables
    /\ cleaner_out = NotCalled
    /\ analyzer_df = Absent
    /\ result = NotCalled
    /\ PreprocessorUnused

NextCleaner == remove_duplicates \/ handle_missing_values \/ clean_data

SpecCleaner == InitCleaner /\ [][NextCleaner]_vars

----------------------------------------------------------------------------
(* Properties of the cleaner *)

SameTriple(r1, r2) ==
    /\ r1.transcript_id = r2.transcript_id
    /\ r1.agent = r2.agent
    /\ r1.message = r2.message

\* rows `after` are exactly the rows of `before` at the positions in `kept`,
\* in their original relative order
IsSelection(after, before, kept) ==
    /\ Len(after) = Cardinality(kept)
    /\ \A i \in kept : after[Cardinality({k \in kept : k <= i})] = before[i]

\* C2: the table clean_data returns has no two rows with the same
\* (transcript_id, agent, message).
C2_CleanedHasNoDuplicateTriple ==
    (cleaner_out.kind = "ok" /\ cleaner_out.op = "clean_data") =>
        \A i, j \in 1..Len(cleaner_df.rows) :
            i # j => ~SameTriple(cleaner_df.rows[i], cleaner_df.rows[j])

\* clean_data has run on a table holding a complete row, the same triple again
\* with other values in the remaining columns, and a third row, and kept two
C2_Witness ==
    /\ cleaner_out.kind = "ok" /\ cleaner_out.op = "clean_data"
    /\ Len(cleaner_out.before) = 3
    /\ SameTriple(cleaner_out.before[1], cleaner_out.before[2])
    /\ cleaner_out.before[1] # cleaner_out.before[2]
    /\ Len(cleaner_df.rows) = 2

\* C3: remove_duplicates keeps exactly the first row of every
\* (transcript_id, agent, message) key, whatever the other columns of the later
\* rows hold, and the kept rows stay in their original relative order.
C3_RemoveDuplicatesKeepsFirst ==
    (cleaner_out.kind = "ok" /\ cleaner_out.op = "remove_duplicates") =>
        LET before == cleaner_out.before IN
        IsSelection(cleaner_df.rows, before,
                    {i \in 1..Len(before) :
                        \A j \in 1..(i - 1) : ~SameTriple(before[j], before[i])})

\* remove_duplicates has dropped a later row that differs from the first of its
\* key in knowledge_source, sentiment and turn_rating, and kept a row after it
C3_Witness ==
    /\ cleaner_out.kind = "ok" /\ cleaner_out.op = "remove_duplicates"
    /\ Len(cleaner_out.before) = 3
    /\ SameTriple(cleaner_out.before[1], cleaner_out.before[2])
    /\ cleaner_out.before[1].knowledge_source # cleaner_out.before[2].knowledge_source
    /\ cleaner_out.before[1].sentiment # cleaner_out.before[2].sentiment
    /\ cleaner_out.before[1].turn_rating # cleaner_out.before[2].turn_rating
    /\ cleaner_df.rows = <<cleaner_out.before[1], cleaner_out.before[3]>>

\* C4: handle_missing_values removes a row exactly when its message or its
\* agent is null; the other columns do not matter.
C4_DropsExactlyIncompleteRows ==
    (cleaner_out.kind = "ok" /\ cleaner_out.op = "handle_missing_values") =>
        LET before == cleaner_out.before IN
        /\ IsSelection(cleaner_df.rows, before,
                       {i \in 1..Len(before) :
                           before[i].message # None /\ before[i].agent # None})
        /\ \A i \in 1..Len(cleaner_df.rows) :
               cleaner_df.rows[i].message # None /\ cleaner_df.rows[i].agent # None

\* handle_missing_values has dropped a row without message and a row without
\* agent, and kept a complete row whose sentiment, turn_rating and article_url
\* are null
C4_Witness ==
    /\ cleaner_out.kind = "ok" /\ cleaner_out.op = "handle_missing_values"
    /\ \E i, j, k \in 1..Len(cleaner_out.before) :
          /\ cleaner_out.before[i].message = None /\ cleaner_out.before[i].agent # None
          /\ cleaner_out.before[j].agent = None /\ cleaner_out.before[j].message # None
          /\ cleaner_out.before[k].message # None /\ cleaner_out.before[k].agent # None
          /\ cleaner_out.before[k].sentiment = None
          /\ cleaner_out.before[k].turn_rating = None
          /\ cleaner_out.before[k].article_url = None
          /\ cleaner_df.rows = <<cleaner_out.before[k]>>

----------------------------------------------------------------------------
(* DataPreprocessor: a str is the sequence of its characters *)

isinstance_str(v) == v[1] = "str"

UpperCase == <<"A", "B", "C", "D", "E", "F", "G", "H", "I", "J", "K", "L", "M",
               "N", "O", "P", "Q", "R", "S", "T", "U", "V", "W", "X", "Y", "Z">>
LowerCase == <<"a", "b", "c", "d", "e", "f", "g", "h", "i", "j", "k", "l", "m",
               "n", "o", "p", "q", "r", "s", "t", "u", "v", "w", "x", "y", "z">>

\* str.lower, character by character
lower_char(c) ==
    IF \E i \in 1..Len(UpperCase) : UpperCase[i] = c
    THEN LowerCase[CHOOSE i \in 1..Len(UpperCase) : UpperCase[i] = c]
    ELSE c

lower(s) == [i \in 1..Len(s) |-> lower_char(s[i])]

\* the character U+0060, which a string of this language cannot hold
grave_accent == "U+0060"

\* string.punctuation
string_punctuation ==
    <<"!", "\"", "#", "$", "%", "&", "'", "(", ")", "*", "+", ",", "-", ".", "/",
      ":", ";", "<", "=", ">", "?", "@", "[", "\\", "]", "^", "_", grave_accent, "{", "|",
      "}", "~">>

Whitespace == {" ", "\t", "\n"}

\* the characters word_tokenize always splits off as tokens of their own
SplitOff ==
    {"!", "?", ";", "@", "#", "$", "%", "&", "*", "(", ")", "[", "]", "{", "}", "<",
     ">"}

Digits == {"0", "1", "2", "3", "4", "5", "6", "7", "8", "9"}

\* a comma or colon is split off unless a digit follows it
splits_before(s) ==
    /\ Head(s) \in {",", ":"}
    /\ Tail(s) = <<>> \/ Head(Tail(s)) \notin Digits

\* a period is split off when only whitespace follows it and a character other
\* than a period precedes it
final_period(s, current) ==
    /\ Head(s) = "."
    /\ \A i \in 2..Len(s) : s[i] \in Whitespace
    /\ current # <<>> /\ current[Len(current)] # "."

\* nltk.tokenize.word_tokenize: tokens end at whitespace, and the characters
\* the rules above split off are tokens of their own
RECURSIVE tokenize_from(_, _, _)
tokenize_from(s, tokens, current) ==
    LET flushed == IF current = <<>> THEN tokens ELSE Append(tokens, current) IN
    IF s = <<>> THEN flushed
    ELSE IF Head(s) \in Whitespace THEN tokenize_from(Tail(s), flushed, <<>>)
    ELSE IF Head(s) \in SplitOff \/ splits_before(s) \/ final_period(s, current)
         THEN tokenize_from(Tail(s), Append(flushed, <<Head(s)>>), <<>>)
    ELSE tokenize_from(Tail(s), tokens, Append(current, Head(s)))

word_tokenize(s) == tokenize_from(s, <<>>, <<>>)

\* x in y on two str: x occurs in y as a substring
str_in(x, y) ==
    \E start \in 0..(Len(y) - Len(x)) :
        \A i \in 1..Len(x) : y[start + i] = x[i]

\* stopwords.words('english'), the entries over the letters of the inputs
stopwords_english ==
    {<<"a">>, <<"i">>, <<"t", "h", "e">>, <<"i", "s">>, <<"i", "t">>, <<"t", "o">>,
     <<"o", "f">>, <<"s", "o">>, <<"b", "e">>}

\* the nouns of WordNet over the letters of the inputs
wordnet_nouns ==
    {<<"c", "a", "t">>, <<"b", "u", "s">>, <<"h", "i">>, <<"b", "y", "e">>,
     <<"o", "k">>}

\* the detachment rules of WordNet's morphy for nouns: suffix, replacement
noun_rules ==
    <<<< <<"s">>, <<>> >>,
      << <<"s", "e", "s">>, <<"s">> >>,
      << <<"i", "e", "s">>, <<"y">> >>>>

ends_with(w, suffix) ==
    /\ Len(w) >= Len(suffix)
    /\ SubSeq(w, Len(w) - Len(suffix) + 1, Len(w)) = suffix

\* the forms morphy finds for a noun: the word itself when WordNet has it, and
\* every rule's result that WordNet has
morphy(w) ==
    (IF w \in wordnet_nouns THEN {w} ELSE {})
    \cup {f \in {SubSeq(w, 1, Len(w) - Len(noun_rules[r][1])) \o noun_rules[r][2] :
                    r \in {q \in 1..Len(noun_rules) : ends_with(w, noun_rules[q][1])}} :
            f \in wordnet_nouns}

\* WordNetLemmatizer.lemmatize(word): the shortest form morphy finds, else the word
lemmatize(w) ==
    LET forms == morphy(w) IN
    IF forms = {} THEN w
    ELSE CHOOSE f \in forms : \A g \in forms : Len(f) <= Len(g)

\* " ".join(tokens)
RECURSIVE join(_, _)
join(sep, parts) ==
    IF parts = <<>> THEN <<>>
    ELSE IF Len(parts) = 1 THEN Head(parts)
    ELSE Head(parts) \o sep \o join(sep, Tail(parts))

keep_token(token) ==
    token \notin stopwords_english /\ ~str_in(token, string_punctuation)

\* what str(None).lower() would give
repr_of_none == PyStr(<<"n", "o", "n", "e">>)

\* return ""
empty_text == PyStr(<<>>)

\* steps 1 to 5 of preprocess_text on a str: the tokens, the tokens the filter
\* keeps, and the joined lemmas
preprocess_steps(text) ==
    LET tokens == word_tokenize(lower(text[2]))
        processed_tokens == SelectSeq(tokens, keep_token)
        lemmatized_tokens ==
            [i \in 1..Len(processed_tokens) |-> lemmatize(processed_tokens[i])]
    IN  [tokens |-> tokens, processed_tokens |-> processed_tokens,
         returned |-> PyStr(join(<<" ">>, lemmatized_tokens))]

preprocess_text(text) ==
    IF ~isinstance_str(text) THEN empty_text ELSE preprocess_steps(text).returned

ProcessedColumns == Columns \cup {"processed_message"}

\* apply_text_preprocessing('message') on the rows: every column is kept and
\* processed_message is added
with_processed_message(row) ==
    [c \in ProcessedColumns |->
        IF c = "processed_message" THEN preprocess_text(row.message) ELSE row[c]]

\* transform_data(): df['processed_message'] = df['message'].apply(preprocess_text)
transform_data(df) ==
    [columns |-> df.columns \cup {"processed_message"},
     rows |-> [i \in 1..Len(df.rows) |-> with_processed_message(df.rows[i])]]

\* every preprocess_text call builds a WordNetLemmatizer and reads the stopword
\* list before it looks at its argument
after_calls(res, n) ==
    [stopword_loads |-> res.stopword_loads + n,
     lemmatizer_inits |-> res.lemmatizer_inits + n]

\* the calls of preprocess_text a run makes
MaxCalls == 2

\* one call preprocess_text(text) on a DataPreprocessor, as the /transform
\* endpoint and apply_text_preprocessing make it
preprocess_text_call(text) ==
    \E steps \in {IF isinstance_str(text) THEN preprocess_steps(text)
                   ELSE [tokens |-> <<>>, processed_tokens |-> <<>>,
                         returned |-> preprocess_text(text)]} :
    /\ resources.stopword_loads <= MaxCalls
    /\ resources' = after_calls(resources, 1)
    /\ preprocess_out' =
           [kind |-> "returned",
            text |-> text,
            tokens |-> steps.tokens,
            processed_tokens |-> steps.processed_tokens,
            returned |-> steps.returned,
            repeats |-> preprocess_out # NotCalled /\ preprocess_out.text = text,
            same_result |-> preprocess_out # NotCalled
                            /\ preprocess_out.returned = steps.returned]
    /\ UNCHANGED <<source, raw_data, loader_out, cleaner_df, cleaner_out, analyzer_df,
                   result, preprocessor_df, encoder_out, pipeline_runs, inflight>>

----------------------------------------------------------------------------
(* Calls of preprocess_text: texts over a small alphabet and values that are
   not str *)

MaxTextLen == 3

\* a letter that is a stopword, in both cases, the blank, and two punctuation
\* characters that stand next to each other in string.punctuation
TextAlphabet == {"a", "A", " ", "^", "_"}

PyInt(n) == <<"int", n>>

PyFloat(n) == <<"float", n>>

NonTexts == {None, PyInt(0), PyFloat(1), PyList(<<>>)}

Texts == {PyStr(s) : s \in SeqsUpTo(TextAlphabet, MaxTextLen)}

InitNormalizer ==
    /\ source = None
    /\ raw_data = None
    /\ loader_out = NotCalled
    /\ cleaner_df = Absent
    /\ cleaner_out = NotCalled
    /\ analyzer_df = Absent
    /\ result = NotCalled
    /\ PreprocessorUnused

NextNormalizer == \E text \in Texts \cup NonTexts : preprocess_text_call(text)

SpecNormalizer == InitNormalizer /\ [][NextNormalizer]_vars

----------------------------------------------------------------------------
(* Properties of preprocess_text *)

PunctuationCharacters == {string_punctuation[i] : i \in 1..Len(string_punctuation)}

\* a token that is one ASCII punctuation character
single_punctuation(token) == Len(token) = 1 /\ token[1] \in PunctuationCharacters

kept_by_rule(token) == token \notin stopwords_english /\ ~single_punctuation(token)

\* C11: step 3 of preprocess_text removes a token as punctuation only if it is
\* a single ASCII punctuation character: the tokens kept are exactly those that
\* are no stopword and no single punctuation character, so a token of several
\* punctuation characters is kept
C11_OnlySinglePunctuationRemoved ==
    (preprocess_out # NotCalled /\ isinstance_str(preprocess_out.text)) =>
        preprocess_out.processed_tokens = SelectSeq(preprocess_out.tokens, kept_by_rule)

C14_ResourcesInitializedOnce ==
    /\ resources.stopword_loads = 1
    /\ resources.lemmatizer_inits = 1

----------------------------------------------------------------------------
(* TranscriptAnalyzer *)

\* _load_data: a new DataLoader, to_dataframe(), clean_data(), transform_data();
\* an exception of a stage ends the construction
load_data_outcome(src) ==
    LET flat == flatten_outcome(src) IN
    IF flat.kind = "raised" THEN flat
    ELSE IF ~has_columns(flat.df, DedupSubset)
         THEN [kind |-> "raised", exc |-> "KeyError"]
    ELSE [kind |-> "ok",
          df |-> transform_data([flat.df EXCEPT !.rows = dropna(drop_duplicates(@))])]

\* self.df[self.df['transcript_id'] == transcript_id]
transcript_rows(df, transcript_id) ==
    SelectSeq(df.rows, LAMBDA r : r.transcript_id = transcript_id)

\* Series.unique(): the values in order of first appearance
RECURSIVE unique(_)
unique(values) ==
    IF values = <<>> THEN <<>>
    ELSE LET init == unique(SubSeq(values, 1, Len(values) - 1))
             last == values[Len(values)]
         IN  IF \E i \in 1..Len(init) : init[i] = last THEN init ELSE Append(init, last)

column(rows, name) == [i \in 1..Len(rows) |-> rows[i][name]]

\* a count that takes every row of the transcript for the agent's
occurrences_any(values, v) == Len(values)

\* how often v occurs in a column
occurrences(values, v) == Cardinality({i \in 1..Len(values) : values[i] = v})

\* transcript_df['agent'].value_counts().to_dict(): the non-null values, counted
value_counts(values) ==
    [v \in {values[i] : i \in {k \in 1..Len(values) : ~isnull(values[k])}} |->
        occurrences(values, v)]

\* Python's order on the str values of the sentiment and agent columns, ascending
StrOrder ==
    <<"Curious to dive deeper", "Negative", "Neutral", "Positive", "agent_1", "agent_2",
      "agent_3">>

str_rank(v) == CHOOSE i \in 1..Len(StrOrder) : StrOrder[i] = v[2]

\* the values of a set of str in descending order
sorted_descending(S) ==
    CHOOSE s \in [1..Cardinality(S) -> S] :
        /\ \A v \in S : \E i \in 1..Len(s) : s[i] = v
        /\ \A i, j \in 1..Len(s) : i < j => str_rank(s[i]) > str_rank(s[j])

\* sorted(S) on a set of str
sorted(S) ==
    CHOOSE s \in [1..Cardinality(S) -> S] :
        /\ \A v \in S : \E i \in 1..Len(s) : s[i] = v
        /\ \A i, j \in 1..Len(s) : i < j => str_rank(s[i]) < str_rank(s[j])

\* Series.mode(): nulls are dropped, the most frequent values are returned sorted
mode(values) ==
    LET present == {values[i] : i \in {k \in 1..Len(values) : ~isnull(values[k])}}
        modal == {v \in present :
                     \A w \in present : occurrences(values, v) >= occurrences(values, w)}
    IN  sorted(modal)

agent_sentiments(rows, agent) ==
    column(SelectSeq(rows, LAMBDA r : r.agent = agent), "sentiment")

\* the loop over transcript_df['agent'].unique() reaches .iloc[0] of an empty
\* mode() for some agent and raises IndexError
sentiment_loop_raises(rows) ==
    \E i \in 1..Len(unique(column(rows, "agent"))) :
        LET sentiments == agent_sentiments(rows, unique(column(rows, "agent"))[i]) IN
        sentiments # <<>> /\ mode(sentiments) = <<>>

\* the dict overall_sentiments after the loop
sentiment_by_agent(rows) ==
    [agent \in {rows[i].agent : i \in 1..Len(rows)} |->
        IF agent_sentiments(rows, agent) # <<>>
        THEN mode(agent_sentiments(rows, agent))[1]
        ELSE PyStr("N/A")]

SummarizerOutcomes == {"summary", "empty list", "raises"}

\* what the summarization pipeline returns for a text; it is not called when it raises
summarizer(text, outcome) ==
    IF outcome = "summary" THEN <<[summary_text |-> <<"summary", text>>]>> ELSE <<>>

\* the summary used when the summarizer returns nothing
FallbackSummary == <<"fallback", "Could not generate summary.">>

Request(transcript_id, outcome) == [transcript_id |-> transcript_id, summarizer |-> outcome]

\* TranscriptAnalyzer.analyze_transcript with the summarizer behaving as `outcome`
analysis(df, transcript_id, outcome) ==
    LET transcript_df == transcript_rows(df, transcript_id)
        article_url == transcript_df[1].article_url
        msg_counts == value_counts(column(transcript_df, "agent"))
        overall_sentiments == sentiment_by_agent(transcript_df)
        full_transcript_text ==
            join(<<" ">>, [i \in 1..Len(transcript_df) |-> transcript_df[i].message[2]])
        summary_list == summarizer(full_transcript_text, outcome)
        summary == IF summary_list # <<>> THEN summary_list[1].summary_text
                   ELSE FallbackSummary
    IN  IF transcript_df = <<>>
        THEN [kind |-> "error", request |-> Request(transcript_id, outcome),
              summarizer_called |-> FALSE]
        ELSE IF sentiment_loop_raises(transcript_df)
        THEN [kind |-> "raised", request |-> Request(transcript_id, outcome),
              summarizer_called |-> FALSE, exc |-> "IndexError"]
        ELSE IF outcome = "raises"
        THEN [kind |-> "raised", request |-> Request(transcript_id, outcome),
              summarizer_called |-> TRUE, exc |-> "summarizer"]
        ELSE [kind |-> "analysis", request |-> Request(transcript_id, outcome),
              summarizer_called |-> TRUE,
              transcript_id |-> transcript_id,
              possible_article_link |-> article_url,
              message_counts |->
                  [agent_1 |-> get_default(msg_counts, PyStr("agent_1"), 0),
                   agent_2 |-> get_default(msg_counts, PyStr("agent_2"), 0)],
              overall_sentiments |->
                  [agent_1 |-> get_default(overall_sentiments, PyStr("agent_1"), PyStr("N/A")),
                   agent_2 |-> get_default(overall_sentiments, PyStr("agent_2"), PyStr("N/A"))],
              conversation_summary |-> summary]

\* how the handler of GET /analyze-transcript/{transcript_id} ends: it raises
\* HTTPException(404) for an error result, returns any other result, and lets an
\* exception of the analyzer pass
handler_outcome(r) ==
    IF r.kind = "error" THEN "HTTPException 404"
    ELSE IF r.kind = "raised" THEN "exception" ELSE "returned"

\* the endpoint analyze_transcript of main.py on the analyzer built at startup
analyze_transcript(transcript_id, outcome) ==
    /\ analyzer_df # Absent
    /\ LET body == analysis(analyzer_df, transcript_id, outcome)
       IN  result' = [handler |-> handler_outcome(body), body |-> body]
    /\ UNCHANGED <<source, raw_data, loader_out, cleaner_df, cleaner_out, analyzer_df, preprocessor_vars>>

----------------------------------------------------------------------------
(* The service: the analyzer is built at startup, then requests arrive *)

MaxAnalyzerTurns == 3

\* the message of the i-th turn of a transcript
MessagePool ==
    <<<<"h", "i", "!">>, <<"b", "y", "e">>, <<"T", "h", "e", " ", "c", "a", "t", "s">>,
      <<"o", "k">>, <<"s", "o">>>>

Agents == {PyStr("agent_1"), PyStr("agent_3")}
Sentiments == {PyStr("Negative"), PyStr("Positive"), None}

AnalyzerTurn(i, a, s) ==
    [message |-> PyStr(MessagePool[i]), agent |-> a, sentiment |-> s,
     knowledge_source |-> PyList(<<>>), turn_rating |-> PyStr("Good")]

AnalyzerContents ==
    {[i \in 1..Len(c) |-> AnalyzerTurn(i, c[i][1], c[i][2])] :
        c \in SeqsUpTo(Agents \X Sentiments, MaxAnalyzerTurns)}

\* a second transcript: a repeated turn, a turn without message, no article_url
OtherTranscript ==
    [content |->
        <<AnalyzerTurn(1, PyStr("agent_1"), PyStr("Positive")),
          AnalyzerTurn(1, PyStr("agent_1"), PyStr("Negative")),
          [agent |-> PyStr("agent_2"), sentiment |-> PyStr("Negative")],
          AnalyzerTurn(2, PyStr("agent_2"), PyStr("Negative"))>>]

AnalyzerStores ==
    UNION {{PyDict(<<<<"t1", [article_url |-> PyStr("http://a"), content |-> c]>>>>),
            PyDict(<<<<"t1", [article_url |-> PyStr("http://a"), content |-> c]>>,
                     <<"t2", OtherTranscript>>>>),
            PyDict(<<<<"t2", OtherTranscript>>,
                     <<"t1", [article_url |-> PyStr("http://a"), content |-> c]>>>>)} :
           c \in AnalyzerContents}

RequestIds == {"t1", "t2", "does-not-exist"}

\* startup: analyzer = TranscriptAnalyzer(file) has succeeded on the file
Init ==
    /\ source \in AnalyzerStores
    /\ load_data_outcome(source).kind = "ok"
    /\ raw_data = None
    /\ loader_out = NotCalled
    /\ cleaner_df = Absent
    /\ cleaner_out = NotCalled
    /\ analyzer_df = load_data_outcome(source).df
    /\ result = NotCalled
    /\ resources = after_calls(imported, Len(analyzer_df.rows))
    /\ preprocess_out = NotCalled
    /\ preprocessor_df = Absent
    /\ encoder_out = NotCalled
    /\ pipeline_runs = 1
    /\ inflight = Idle

Next ==
    \E transcript_id \in RequestIds, outcome \in SummarizerOutcomes :
        analyze_transcript(transcript_id, outcome)

Spec == Init /\ [][Next]_vars

----------------------------------------------------------------------------
(* Properties of analyze_transcript *)

Answered == result # NotCalled

\* the rows of the cached table that belong to the requested transcript
RequestedRows ==
    SelectSeq(analyzer_df.rows,
              LAMBDA r : r.transcript_id = result.body.request.transcript_id)

AgentsOfRequest == {RequestedRows[i].agent : i \in 1..Len(RequestedRows)}

\* the number of requested rows of agent a
RowsOf(a) == Cardinality({i \in 1..Len(RequestedRows) : RequestedRows[i].agent = a})

\* the number of requested rows of agent a whose sentiment is s
RowsWith(a, s) ==
    Cardinality({i \in 1..Len(RequestedRows) :
                    RequestedRows[i].agent = a /\ RequestedRows[i].sentiment = s})

\* the non-null sentiments of agent a in the requested rows
SentimentsOfAgent(a) ==
    {RequestedRows[i].sentiment :
        i \in {k \in 1..Len(RequestedRows) :
                  RequestedRows[k].agent = a /\ RequestedRows[k].sentiment # None}}

\* the agents the analysis reports
Reported == {PyStr("agent_1"), PyStr("agent_2")}

\* C5: when an agent of the transcript has rows and none of them has a
\* sentiment, the call returns an analysis, and the agent's overall sentiment
\* in it is "N/A" (the summarizer does not fail here).
C5_NoSentimentGivesSentinel ==
    (Answered /\ result.body.request.summarizer # "raises") =>
        \A a \in AgentsOfRequest :
            SentimentsOfAgent(a) = {} =>
                /\ result.body.kind = "analysis"
                /\ a \in Reported => result.body.overall_sentiments[a[2]] = PyStr("N/A")

\* C6: the overall sentiment reported for an agent that has sentiments is one
\* of its most frequent sentiments, and among equally frequent ones the
\* smallest in the order of str.
C6_OverallSentimentIsSmallestMode ==
    (Answered /\ result.body.kind = "analysis") =>
        \A a \in AgentsOfRequest \cap Reported :
            SentimentsOfAgent(a) # {} =>
                LET v == result.body.overall_sentiments[a[2]] IN
                /\ v \in SentimentsOfAgent(a)
                /\ \A w \in SentimentsOfAgent(a) :
                      \/ RowsWith(a, v) > RowsWith(a, w)
                      \/ RowsWith(a, v) = RowsWith(a, w) /\ str_rank(v) <= str_rank(w)

\* agent_1 has one Positive row followed by one Negative row, and its overall
\* sentiment is Negative
C6_Witness ==
    /\ Answered /\ result.body.kind = "analysis"
    /\ RowsOf(PyStr("agent_1")) = 2
    /\ \E i, j \in 1..Len(RequestedRows) :
          /\ i < j
          /\ RequestedRows[i].agent = PyStr("agent_1")
          /\ RequestedRows[i].sentiment = PyStr("Positive")
          /\ RequestedRows[j].agent = PyStr("agent_1")
          /\ RequestedRows[j].sentiment = PyStr("Negative")
    /\ result.body.overall_sentiments.agent_1 = PyStr("Negative")

\* agent_1 has two Positive rows and one Negative row, and its overall
\* sentiment is Positive
MajorityReached ==
    /\ Answered /\ result.body.kind = "analysis"
    /\ RowsWith(PyStr("agent_1"), PyStr("Positive")) = 2
    /\ RowsWith(PyStr("agent_1"), PyStr("Negative")) = 1
    /\ result.body.overall_sentiments.agent_1 = PyStr("Positive")

RECURSIVE SumOver(_, _)
SumOver(f, keys) ==
    IF keys = {} THEN 0
    ELSE LET k == CHOOSE x \in keys : TRUE IN f[k] + SumOver(f, keys \ {k})

\* C7 as claimed: message_counts has an entry for every agent of the
\* transcript's rows, holding the number of its rows, and the counts sum to
\* the number of matching rows.
C7_CountsCoverEveryAgent ==
    (Answered /\ result.body.kind = "analysis") =>
        LET counts == result.body.message_counts IN
        /\ \A a \in AgentsOfRequest :
              a[2] \in DOMAIN counts /\ counts[a[2]] = RowsOf(a)
        /\ SumOver(counts, DOMAIN counts) = Len(RequestedRows)

\* C7: message_counts has exactly the entries agent_1 and agent_2, each the
\* number of matching rows of that agent (0 without any); the counts sum to
\* the number of matching rows of these two agents.
C7_CountsOfTheTwoNamedAgents ==
    (Answered /\ result.body.kind = "analysis") =>
        LET counts == result.body.message_counts IN
        /\ DOMAIN counts = {"agent_1", "agent_2"}
        /\ \A name \in DOMAIN counts : counts[name] = RowsOf(PyStr(name))
        /\ SumOver(counts, DOMAIN counts) =
               Cardinality({i \in 1..Len(RequestedRows) :
                               RequestedRows[i].agent \in Reported})

\* an analysis of a transcript with two rows of agent_1 and one of agent_3
C7_Witness ==
    /\ Answered /\ result.body.kind = "analysis"
    /\ Len(RequestedRows) = 3
    /\ RowsOf(PyStr("agent_1")) = 2
    /\ RowsOf(PyStr("agent_3")) = 1
    /\ result.body.message_counts.agent_1 = 2
    /\ result.body.message_counts.agent_2 = 0

\* C8: the outcome is the not-found error, reached without calling the
\* summarizer, exactly when no row has the requested transcript_id; with a
\* matching row the call returns an analysis.
C8_NotFoundExactlyWithoutRows ==
    Answered =>
        /\ result.body.kind = "error" <=> RequestedRows = <<>>
        /\ result.body.kind = "error" =>
               ~result.body.summarizer_called /\ result.handler = "HTTPException 404"
        /\ RequestedRows # <<>> => result.body.kind = "analysis"

\* the part of C8 about the error outcome alone
NotFoundOnlyWithoutRows ==
    Answered =>
        /\ result.body.kind = "error" <=> RequestedRows = <<>>
        /\ result.body.kind = "error" =>
               ~result.body.summarizer_called /\ result.handler = "HTTPException 404"

\* C9: when the summarizer is called and fails, the call still returns an
\* analysis, with message_counts and overall_sentiments, whose
\* conversation_summary is the fallback string.
C9_SummarizerFailureGivesFallback ==
    (Answered /\ result.body.summarizer_called
        /\ result.body.request.summarizer = "raises") =>
        /\ result.body.kind = "analysis"
        /\ result.body.conversation_summary = FallbackSummary

----------------------------------------------------------------------------
(* DataPreprocessor.encode_categorical *)

\* the position of a value in a sequence that holds it
index_of(seq, v) == CHOOSE i \in 1..Len(seq) : seq[i] = v

\* codes in the order in which the values first appear
codes_by_first_appearance(values) ==
    [i \in 1..Len(values) |-> index_of(unique(values), values[i]) - 1]

\* LabelEncoder.fit_transform: classes_ are the distinct values sorted, and
\* every value is replaced by its index in classes_
fit_transform(values) ==
    LET classes_ == sorted({values[i] : i \in 1..Len(values)}) IN
    [i \in 1..Len(values) |-> index_of(classes_, values[i]) - 1]

encode_categorical(name) ==
    /\ preprocessor_df # Absent
    /\ encoder_out' =
           IF name \in preprocessor_df.columns
           THEN [kind |-> "ok", column |-> name, before |-> preprocessor_df,
                 returned |-> fit_transform(column(preprocessor_df.rows, name))]
           ELSE [kind |-> "raised", column |-> name, before |-> preprocessor_df,
                 exc |-> "KeyError"]
    /\ UNCHANGED <<source, raw_data, loader_out, cleaner_df, cleaner_out, analyzer_df,
                   result, resources, preprocess_out, preprocessor_df, pipeline_runs,
                   inflight>>

----------------------------------------------------------------------------
(* Tables for encode_categorical: two columns of str values *)

MaxEncoded == 3

EncodedColumns == {"agent", "sentiment"}

EncoderRows ==
    [agent : {PyStr("agent_1"), PyStr("agent_2")},
     sentiment : {PyStr("Negative"), PyStr("Neutral"), PyStr("Positive")}]

EncoderTables ==
    {[columns |-> EncodedColumns, rows |-> rows] : rows \in SeqsUpTo(EncoderRows, MaxEncoded)}

InitEncoder ==
    /\ source = None
    /\ raw_data = None
    /\ loader_out = NotCalled
    /\ cleaner_df = Absent
    /\ cleaner_out = NotCalled
    /\ analyzer_df = Absent
    /\ result = NotCalled
    /\ resources = imported
    /\ preprocess_out = NotCalled
    /\ preprocessor_df \in EncoderTables
    /\ encoder_out = NotCalled
    /\ pipeline_runs = 0
    /\ inflight = Idle

NextEncoder == \E name \in EncodedColumns \cup {"article_url"} : encode_categorical(name)

SpecEncoder == InitEncoder /\ [][NextEncoder]_vars

----------------------------------------------------------------------------
(* Properties of encode_categorical *)

Encoded == encoder_out # NotCalled /\ encoder_out.kind = "ok"

EncodedValues == column(encoder_out.before.rows, encoder_out.column)

DistinctEncoded == {EncodedValues[i] : i \in 1..Len(EncodedValues)}

\* C13: encode_categorical returns one integer per element of the column, in
\* the order of the elements; equal values get equal codes and distinct values
\* distinct codes; the codes are exactly 0..k-1 for k distinct values; the code
\* of a value is the number of distinct values that sort before it, whatever
\* the order of the elements; and the column is not modified
C13_CodesAreRanksOfSortedValues ==
    Encoded =>
        LET codes == encoder_out.returned IN
        /\ Len(codes) = Len(EncodedValues)
        /\ \A i, j \in 1..Len(codes) :
               (EncodedValues[i] = EncodedValues[j]) <=> (codes[i] = codes[j])
        /\ {codes[i] : i \in 1..Len(codes)} = 0..(Cardinality(DistinctEncoded) - 1)
        /\ \A i \in 1..Len(codes) :
               codes[i] = Cardinality({v \in DistinctEncoded :
                                          str_rank(v) < str_rank(EncodedValues[i])})
        /\ preprocessor_df = encoder_out.before

\* a column was encoded in which a value comes back and a larger value stands
\* before a smaller one
C13_Witness ==
    /\ Encoded
    /\ \E i, j \in 1..Len(EncodedValues) :
           i < j /\ str_rank(EncodedValues[i]) > str_rank(EncodedValues[j])
    /\ \E i, j \in 1..Len(EncodedValues) : i < j /\ EncodedValues[i] = EncodedValues[j]

----------------------------------------------------------------------------
(* TranscriptAnalyzer under concurrent callers: a call reads self.df, works on
   its own selection of the rows, and waits for the summarizer in between *)

\* TranscriptAnalyzer.__init__: _load_data runs the loader, the cleaner and the
\* preprocessor once; when a stage raises, no analyzer comes to exist
construct_analyzer ==
    LET loaded == load_data_outcome(source) IN
    /\ pipeline_runs = 0
    /\ pipeline_runs' = pipeline_runs + 1
    /\ analyzer_df' = IF loaded.kind = "ok" THEN loaded.df ELSE Absent
    /\ resources' = IF loaded.kind = "ok"
                    THEN after_calls(resources, Len(loaded.df.rows)) ELSE resources
    /\ UNCHANGED <<source, raw_data, loader_out, cleaner_df, cleaner_out, result,
                   preprocess_out, preprocessor_df, encoder_out, inflight>>

\* the call of worker w up to the summarizer: a call that finds no row, or whose
\* sentiment loop raises, ends here
started(w, transcript_id, df) ==
    LET body == analysis(df, transcript_id, "summary") IN
    IF body.summarizer_called
    THEN [inflight EXCEPT ![w] =
              [phase |-> "summarizing", transcript_id |-> transcript_id, df |-> df]]
    ELSE [inflight EXCEPT ![w] =
              [phase |-> "done", transcript_id |-> transcript_id, summarizer |-> "summary",
               body |-> body]]

\* a call that keeps its selection of the rows as the analyzer's table
begin_analyze_in_place(w, transcript_id) ==
    /\ analyzer_df # Absent
    /\ inflight[w].phase # "summarizing"
    /\ inflight' = started(w, transcript_id, analyzer_df)
    /\ analyzer_df' = [analyzer_df EXCEPT !.rows = transcript_rows(analyzer_df, transcript_id)]
    /\ UNCHANGED <<source, raw_data, loader_out, cleaner_df, cleaner_out, result,
                   resources, preprocess_out, preprocessor_df, encoder_out, pipeline_runs>>

\* worker w calls analyze_transcript(transcript_id)
begin_analyze(w, transcript_id) ==
    /\ analyzer_df # Absent
    /\ inflight[w].phase # "summarizing"
    /\ inflight' = started(w, transcript_id, analyzer_df)
    /\ UNCHANGED <<source, raw_data, loader_out, cleaner_df, cleaner_out, analyzer_df,
                   result, resources, preprocess_out, preprocessor_df, encoder_out,
                   pipeline_runs>>

\* the summarizer answers worker w and its call returns
end_analyze(w, outcome) ==
    /\ inflight[w].phase = "summarizing"
    /\ inflight' =
           [inflight EXCEPT ![w] =
               [phase |-> "done", transcript_id |-> inflight[w].transcript_id,
                summarizer |-> outcome,
                body |-> analysis(inflight[w].df, inflight[w].transcript_id, outcome)]]
    /\ UNCHANGED <<source, raw_data, loader_out, cleaner_df, cleaner_out, analyzer_df,
                   result, resources, preprocess_out, preprocessor_df, encoder_out,
                   pipeline_runs>>

----------------------------------------------------------------------------
(* Concurrent callers on the stores whose transcript t1 is short *)

MaxSharedTurns == 1

t1_turns(store) ==
    LET k == CHOOSE k \in 1..Len(store[2]) : store[2][k][1] = "t1" IN
    Len(store[2][k][2].content)

ConcurrentStores == {store \in AnalyzerStores : t1_turns(store) <= MaxSharedTurns}

InitConcurrent ==
    /\ source \in ConcurrentStores
    /\ raw_data = None
    /\ loader_out = NotCalled
    /\ cleaner_df = Absent
    /\ cleaner_out = NotCalled
    /\ analyzer_df = Absent
    /\ result = NotCalled
    /\ PreprocessorUnused

NextConcurrent ==
    \/ construct_analyzer
    \/ \E w \in Workers, transcript_id \in RequestIds : begin_analyze(w, transcript_id)
    \/ \E w \in Workers, outcome \in SummarizerOutcomes : end_analyze(w, outcome)

SpecConcurrent == InitConcurrent /\ [][NextConcurrent]_vars

----------------------------------------------------------------------------
(* Properties of the cached table *)

\* the table _load_data builds from the file
BuiltTable == load_data_outcome(source).df

\* C15: the pipeline runs exactly once for a TranscriptAnalyzer, at its
\* construction; however the analyze_transcript calls of concurrent callers
\* interleave, the cached table stays the one built at construction, the
\* pipeline does not run again, and the result of every call is the analysis of
\* that table for the call's transcript_id
C15_TableBuiltOnceAndOnlyRead ==
    /\ pipeline_runs <= 1
    /\ analyzer_df # Absent =>
           /\ pipeline_runs = 1
           /\ analyzer_df = BuiltTable
           /\ \A w \in Workers :
                  /\ inflight[w].phase = "summarizing" => inflight[w].df = BuiltTable
                  /\ inflight[w].phase = "done" =>
                         inflight[w].body =
                             analysis(BuiltTable, inflight[w].transcript_id,
                                      inflight[w].summarizer)

\* a call that found its transcript has returned while another call, for a
\* transcript that is found too, waits for the summarizer
C15_Witness ==
    /\ inflight["w1"].phase = "summarizing"
    /\ inflight["w2"].phase = "done"
    /\ inflight["w2"].body.kind = "analysis"
    /\ inflight["w1"].transcript_id # inflight["w2"].transcript_id

====
